---- MODULE Spec2Model ----
(***************************************************************************)
(* Model of the bikeshare filter -> aggregate -> report pipeline:          *)
(*   src/bikeshare_analyzer.py  BikeShareAnalyzer (command-line loop)      *)
(*   src/bikeshare_webapp.py    BikeshareWebApp   (dashboard rerun)        *)
(*   src/bikeshare_demo.py      demo_enhanced_features                     *)
(* A behaviour is one session of one of the front ends over a fixed set    *)
(* of city files.                                                          *)
(***************************************************************************)
EXTENDS Integers, Sequences, FiniteSets, TLC

VARIABLES
    app,            \* what drives this session: "cli", "api", "web" or "demo"
    files,          \* file name -> the CSV file of that name (it may not exist)
    pc,             \* control position of the running front end
    filters,        \* run_analysis: local `filters` (a FilterConfig)
    df,             \* run_analysis / run: local `df`
    self_df,        \* BikeShareAnalyzer.df
    self_filters,   \* BikeShareAnalyzer.filters
    input,          \* get_user_filters: locals city, month, day read so far
    report,         \* what the current query has reported, group by group
    sidebar,        \* run: (city, month, day, hour_range) from create_sidebar
    filtered_df,    \* run: local `filtered_df`
    queries         \* number of queries started in this session

vars == <<app, files, pc, filters, df, self_df, self_filters, input, report,
          sidebar, filtered_df, queries>>

(***************************************************************************)
(* Bounds of the model.                                                    *)
(***************************************************************************)
MaxRows == 2
MaxStatRows == 2
MaxQueries == 2

(***************************************************************************)
(* Python str values.  A string is its letters (lower-cased), the case     *)
(* form the letters are written in, and whether white space surrounds it.  *)
(* Two strings are equal iff all three agree, as == on str.                *)
(***************************************************************************)
Forms == {"lower", "title", "upper"}

S(w) == [w |-> w, form |-> "lower", pad |-> FALSE]

Lower(s) == [s EXCEPT !.form = "lower"]

Strip(s) == [s EXCEPT !.pad = FALSE]

Title(s) == [s EXCEPT !.form = "title"]

\* Digit strings have no case: they are only ever written in form "lower".
DigitWords == <<"0", "1", "2", "3", "4", "5", "6", "7", "8", "9">>

IsDigit(s) == \E i \in 1..Len(DigitWords) : DigitWords[i] = s.w

IntOf(s) == (CHOOSE i \in 1..Len(DigitWords) : DigitWords[i] = s.w) - 1

SeqIndex(seq, x) == CHOOSE i \in 1..Len(seq) : seq[i] = x

InSeq(x, seq) == \E i \in 1..Len(seq) : seq[i] = x

(***************************************************************************)
(* Class constants of BikeShareAnalyzer and BikeshareWebApp.               *)
(***************************************************************************)
CITY_KEYS == <<S("chicago"), S("new york city"), S("washington")>>

MONTHS == <<S("all"), S("january"), S("february"), S("march"), S("april"),
            S("may"), S("june")>>

DAYS == <<S("all"), S("monday"), S("tuesday"), S("wednesday"), S("thursday"),
          S("friday"), S("saturday"), S("sunday")>>

WEB_CITIES == <<Title(S("chicago")), Title(S("new york city")),
                Title(S("washington"))>>

WEB_MONTHS == [i \in 1..Len(MONTHS) |-> Title(MONTHS[i])]

WEB_DAYS == [i \in 1..Len(DAYS) |-> Title(DAYS[i])]

SeqRange(seq) == {seq[i] : i \in 1..Len(seq)}

(***************************************************************************)
(* Timestamps (year 2017) and the .dt accessors.                           *)
(***************************************************************************)
NaT == [ok |-> FALSE, month |-> 0, day |-> 0, hour |-> 0]

TS(m, d, h) == [ok |-> TRUE, month |-> m, day |-> d, hour |-> h]

DaysBefore == <<0, 31, 59, 90, 120, 151, 181, 212, 243, 273, 304, 334>>

DayNames == <<"monday", "tuesday", "wednesday", "thursday", "friday",
              "saturday", "sunday">>

\* 1 January 2017 was a Sunday.
WeekdayIndex(t) == ((DaysBefore[t.month] + t.day + 5) % 7) + 1

\* The .dt accessors; on NaT they yield a missing value (-1 is NaN below).
DtMonth(t) == IF t.ok THEN t.month ELSE -1

DtDayName(t) == IF t.ok THEN Title(S(DayNames[WeekdayIndex(t)])) ELSE S("nan")

DtHour(t) == IF t.ok THEN t.hour ELSE -1

DtDate(t) == IF t.ok THEN <<t.month, t.day>> ELSE <<0, 0>>

(***************************************************************************)
(* pandas values.  NaN marks a missing number, NaNStr a missing string.    *)
(* A DataFrame is its set of column labels and its rows in index order;    *)
(* a row carries a field for every column the programs ever touch, and a   *)
(* field whose column is absent holds that column's blank value.           *)
(***************************************************************************)
NaN == -1

NaNStr == "nan"

None == [none |-> TRUE]

EmptyDataFrame == [columns |-> {}, rows |-> <<>>]

RawColumns == {"Start Time", "Trip Duration", "User Type", "Gender",
               "Birth Year", "Start Station", "End Station"}

RawRow(t, dur, ut, g, by, ss, es) ==
    [Start_Time |-> t, Trip_Duration |-> dur, User_Type |-> ut, Gender |-> g,
     Birth_Year |-> by, Start_Station |-> ss, End_Station |-> es,
     month |-> 0, day_of_week |-> S(""), hour |-> 0, date |-> <<0, 0>>,
     route |-> <<>>, is_weekend |-> FALSE]

MapRows(rows, F(_)) == [i \in 1..Len(rows) |-> F(rows[i])]

Where(d, Test(_)) == [d EXCEPT !.rows = SelectSeq(d.rows, Test)]

LenDF(d) == Len(d.rows)

\* pd.read_csv(file_path): the file's columns and rows.
ReadCsv(file) == [columns |-> file.columns, rows |-> file.rows]

\* pd.to_datetime(df['Start Time'], errors='coerce')
ToDatetime(d) ==
    LET Coerce(r) == [r EXCEPT !.Start_Time = IF r.Start_Time.ok
                                              THEN r.Start_Time ELSE NaT]
    IN  [d EXCEPT !.rows = MapRows(d.rows, Coerce)]

\* Mutant: no dropna.
DropNaStartTime_KeepAll(d) == d

\* df.dropna(subset=['Start Time'])
DropNaStartTime(d) ==
    LET Valid(r) == r.Start_Time # NaT
    IN  Where(d, Valid)

\* df['month'], df['day_of_week'], df['hour'], df['date'] from Start Time.
DeriveTimeFeatures(d) ==
    LET Derive(r) == [r EXCEPT !.month = DtMonth(r.Start_Time),
                               !.day_of_week = DtDayName(r.Start_Time),
                               !.hour = DtHour(r.Start_Time),
                               !.date = DtDate(r.Start_Time)]
    IN  [columns |-> d.columns \cup {"month", "day_of_week", "hour", "date"},
         rows |-> MapRows(d.rows, Derive)]

IsWeekendDay(name) == name \in {Title(S("saturday")), Title(S("sunday"))}

\* df['Start Time'] of line 188 (webapp line 103) is there: without the
\* column the lookup raises KeyError.
HasStartTime(file) == "Start Time" \in file.columns

\* list.index(x): 0-based position of x.
ListIndex(seq, x) == SeqIndex(seq, x) - 1

(***************************************************************************)
(* FilterConfig and BikeShareAnalyzer.load_and_filter_data.                *)
(***************************************************************************)
FilterConfig(city, month, day) ==
    [city |-> Strip(Lower(city)), month |-> Strip(Lower(month)),
     day |-> Strip(Lower(day))]

CliPreprocess(file) == DeriveTimeFeatures(DropNaStartTime(ToDatetime(ReadCsv(file))))

\* Mutant: the month number taken 1-based from MONTHS, 'all' included.
CliMonthFilter_OneBased(d, f) ==
    IF f.month # S("all")
    THEN LET month_num == SeqIndex(MONTHS, f.month)
             Keep(r) == r.month = month_num
         IN  Where(d, Keep)
    ELSE d

CliMonthFilter(d, f) ==
    IF f.month # S("all")
    THEN LET month_num == ListIndex(MONTHS, f.month)
             Keep(r) == r.month = month_num
         IN  Where(d, Keep)
    ELSE d

\* Mutant: the day compared as FilterConfig holds it, without .title().
CliDayFilter_NoTitle(d, f) ==
    IF f.day # S("all")
    THEN LET Keep(r) == r.day_of_week = f.day
         IN  Where(d, Keep)
    ELSE d

CliDayFilter(d, f) ==
    IF f.day # S("all")
    THEN LET Keep(r) == r.day_of_week = Title(f.day)
         IN  Where(d, Keep)
    ELSE d

\* The frame `df` holds at line 205, after both filters.
CliFiltered(file, f) == CliDayFilter(CliMonthFilter(CliPreprocess(file), f), f)

(***************************************************************************)
(* BikeshareWebApp.load_data and filter_data.                              *)
(***************************************************************************)
WebLoadData(file) ==
    IF ~file.exists \/ ~HasStartTime(file)     \* lines 95-97, 119-121
    THEN EmptyDataFrame
    ELSE LET d == DeriveTimeFeatures(DropNaStartTime(ToDatetime(ReadCsv(file))))
             Weekend(r) == [r EXCEPT !.is_weekend = IsWeekendDay(r.day_of_week)]
             d1 == [columns |-> d.columns \cup {"is_weekend"},
                    rows |-> MapRows(d.rows, Weekend)]
             Route(r) == [r EXCEPT !.route = <<r.Start_Station, r.End_Station>>]
         IN  IF {"Start Station", "End Station"} \subseteq d1.columns
             THEN [columns |-> d1.columns \cup {"route"},
                   rows |-> MapRows(d1.rows, Route)]
             ELSE d1

\* Mutant: the kept rows get their month rewritten 0-based.
WebMonthFilter_ZeroBased(d, month_filter) ==
    IF month_filter # Title(S("all"))
    THEN LET month_num == ListIndex(WEB_MONTHS, month_filter)
             Keep(r) == r.month = month_num
             Shift(r) == [r EXCEPT !.month = r.month - 1]
         IN  [d EXCEPT !.rows = MapRows(SelectSeq(d.rows, Keep), Shift)]
    ELSE d

WebMonthFilter(d, month_filter) ==
    IF month_filter # Title(S("all"))
    THEN LET month_num == ListIndex(WEB_MONTHS, month_filter)
             Keep(r) == r.month = month_num
         IN  Where(d, Keep)
    ELSE d

\* Mutant: the day compared in lower case.
WebDayFilter_Lower(d, day_filter) ==
    IF day_filter # Title(S("all"))
    THEN LET Keep(r) == r.day_of_week = Lower(day_filter)
         IN  Where(d, Keep)
    ELSE d

WebDayFilter(d, day_filter) ==
    IF day_filter # Title(S("all"))
    THEN LET Keep(r) == r.day_of_week = day_filter
         IN  Where(d, Keep)
    ELSE d

\* Mutant: the upper bound excluded.
WebHourFilter_Exclusive(d, hour_range) ==
    LET Keep(r) == r.hour >= hour_range[1] /\ r.hour < hour_range[2]
    IN  Where(d, Keep)

WebHourFilter(d, hour_range) ==
    LET Keep(r) == r.hour >= hour_range[1] /\ r.hour <= hour_range[2]
    IN  Where(d, Keep)

\* Mutant: the day filter applied to df, not to the month-filtered frame.
FilterData_DayOnSource(d, month_filter, day_filter, hour_range) ==
    [src |-> d,
     out |-> WebHourFilter(IF day_filter # Title(S("all"))
                           THEN WebDayFilter(d, day_filter)
                           ELSE WebMonthFilter(d, month_filter), hour_range)]

\* Mutant: no df.copy(), the rows dropped from the argument itself.
FilterData_InPlace(d, month_filter, day_filter, hour_range) ==
    LET out == WebHourFilter(WebDayFilter(WebMonthFilter(d, month_filter),
                                          day_filter), hour_range)
    IN  [src |-> out, out |-> out]

\* filter_data(df, month_filter, day_filter, hour_range): the frame returned
\* (`out`) and the frame the argument refers to afterwards (`src`).
FilterData(d, month_filter, day_filter, hour_range) ==
    [src |-> d,
     out |-> WebHourFilter(WebDayFilter(WebMonthFilter(d, month_filter),
                                        day_filter), hour_range)]

(***************************************************************************)
(* Series helpers.                                                         *)
(***************************************************************************)
Count(rows, Test(_)) == Len(SelectSeq(rows, Test))

RECURSIVE SumSeq(_)
SumSeq(xs) == IF xs = <<>> THEN 0 ELSE Head(xs) + SumSeq(Tail(xs))

SetMin(X) == CHOOSE x \in X : \A y \in X : x <= y

SetMax(X) == CHOOSE x \in X : \A y \in X : y <= x

\* Mutant: the largest of the most frequent values.
ModeOf_Largest(xs) ==
    LET vals == SeqRange(xs)
        Freq(v) == LET Is(x) == x = v IN Count(xs, Is)
        top == SetMax({Freq(v) : v \in vals})
    IN  SetMax({v \in vals : Freq(v) = top})

\* Series.mode()[0] of a numeric Series given as the sequence of its non-NaN
\* values: the smallest of the most frequent values.
ModeOf(xs) ==
    LET vals == SeqRange(xs)
        Freq(v) == LET Is(x) == x = v IN Count(xs, Is)
        top == SetMax({Freq(v) : v \in vals})
    IN  SetMin({v \in vals : Freq(v) = top})

\* The values of a numeric Series in ascending order.
RECURSIVE SortAsc(_)
SortAsc(xs) ==
    IF xs = <<>> THEN <<>>
    ELSE LET m == SetMin(SeqRange(xs))
             i == CHOOSE j \in 1..Len(xs) : xs[j] = m
         IN  <<m>> \o SortAsc(SubSeq(xs, 1, i - 1) \o SubSeq(xs, i + 1, Len(xs)))

\* f"{a / b:.0f}": a / b rounded to nearest, ties to even.  PctTenths is
\* f"{count / n * 100:.1f}" in tenths of a percent.
RoundDiv(a, b) ==
    LET q == a \div b
        r == a % b
    IN  IF 2 * r > b \/ (2 * r = b /\ q % 2 = 1) THEN q + 1 ELSE q

PctTenths(count, n) == RoundDiv(count * 1000, n)

NotRun == [status |-> "notrun"]

Raised(what) == [status |-> "raised", error |-> what]

(***************************************************************************)
(* BikeShareAnalyzer.analyze_trip_duration.                                *)
(***************************************************************************)
\* Mutant: a unit that is zero is left out wherever it stands.
FormatDuration_DropZeroUnits(seconds) ==
    IF seconds = NaN THEN <<[unit |-> "N/A", value |-> 0]>>
    ELSE LET hours == seconds \div 3600
             remainder == seconds % 3600
             minutes == remainder \div 60
             secs == remainder % 60
         IN  (IF hours > 0 THEN <<[unit |-> "h", value |-> hours]>> ELSE <<>>)
             \o (IF minutes > 0 THEN <<[unit |-> "m", value |-> minutes]>> ELSE <<>>)
             \o <<[unit |-> "s", value |-> secs]>>

\* format_duration(seconds): the units printed, most significant first.
FormatDuration(seconds) ==
    IF seconds = NaN THEN <<[unit |-> "N/A", value |-> 0]>>
    ELSE LET hours == seconds \div 3600
             remainder == seconds % 3600
             minutes == remainder \div 60
             secs == remainder % 60
         IN  IF hours > 0
             THEN <<[unit |-> "h", value |-> hours], [unit |-> "m", value |-> minutes],
                    [unit |-> "s", value |-> secs]>>
             ELSE IF minutes > 0
                  THEN <<[unit |-> "m", value |-> minutes], [unit |-> "s", value |-> secs]>>
                  ELSE <<[unit |-> "s", value |-> secs]>>

\* int() of the mean / median of the non-NaN durations (NaN when there are none).
MeanInt(xs) == IF xs = <<>> THEN NaN ELSE SumSeq(xs) \div Len(xs)

MedianInt(xs) ==
    IF xs = <<>> THEN NaN
    ELSE LET s == SortAsc(xs)
             n == Len(s)
         IN  IF n % 2 = 1 THEN s[(n + 1) \div 2]
             ELSE (s[n \div 2] + s[n \div 2 + 1]) \div 2

ShortTrip(r) == r.Trip_Duration # NaN /\ r.Trip_Duration <= 600

\* Mutant: between(600, 1800).
MediumTrip_From600(r) == r.Trip_Duration # NaN /\ r.Trip_Duration >= 600 /\ r.Trip_Duration <= 1800

MediumTrip(r) == r.Trip_Duration # NaN /\ r.Trip_Duration >= 601 /\ r.Trip_Duration <= 1800

LongTrip(r) == r.Trip_Duration # NaN /\ r.Trip_Duration > 1800

AnalyzeTripDuration(d) ==
    IF d = None \/ LenDF(d) = 0 \/ "Trip Duration" \notin d.columns
    THEN [status |-> "unavailable"]
    ELSE LET HasDur(r) == r.Trip_Duration # NaN
             Dur(r) == r.Trip_Duration
             xs == MapRows(SelectSeq(d.rows, HasDur), Dur)
             short_trips == Count(d.rows, ShortTrip)
             medium_trips == Count(d.rows, MediumTrip)
             long_trips == Count(d.rows, LongTrip)
         IN  [status |-> "computed",
              total |-> FormatDuration(SumSeq(xs)),
              total_seconds |-> SumSeq(xs),
              mean |-> FormatDuration(MeanInt(xs)),
              median |-> FormatDuration(MedianInt(xs)),
              min |-> FormatDuration(IF xs = <<>> THEN NaN ELSE SetMin(SeqRange(xs))),
              max |-> FormatDuration(IF xs = <<>> THEN NaN ELSE SetMax(SeqRange(xs))),
              short_trips |-> short_trips,
              medium_trips |-> medium_trips,
              long_trips |-> long_trips,
              short_pct |-> PctTenths(short_trips, LenDF(d)),
              medium_pct |-> PctTenths(medium_trips, LenDF(d)),
              long_pct |-> PctTenths(long_trips, LenDF(d))]

(***************************************************************************)
(* BikeShareAnalyzer.analyze_user_demographics.                            *)
(***************************************************************************)
\* Series.value_counts() with the percentage printed beside each count:
\* NaN is not counted; the percentage is of `total`.
ValueCounts(rows, Val(_), total) ==
    LET cats == {Val(rows[i]) : i \in 1..Len(rows)} \ {NaNStr}
    IN  [c \in cats |->
            LET Is(r) == Val(r) = c
            IN  [count |-> Count(rows, Is),
                 pct |-> PctTenths(Count(rows, Is), total)]]

BirthYearStats(d, current_year) ==
    LET HasYear(r) == r.Birth_Year # NaN
        Year(r) == r.Birth_Year
        birth_years == MapRows(SelectSeq(d.rows, HasYear), Year)
        Age(y) == current_year - y
        ages == [i \in 1..Len(birth_years) |-> Age(birth_years[i])]
        IsYoung(a) == a <= 25
        IsAdult(a) == a >= 26 /\ a <= 45
        IsSenior(a) == a > 45
        young == Count(ages, IsYoung)
        adult == Count(ages, IsAdult)
        senior == Count(ages, IsSenior)
        n == Len(birth_years)
    IN  IF n = 0 THEN [status |-> "empty"]
        ELSE [status |-> "computed",
              earliest |-> SetMin(SeqRange(birth_years)),
              most_recent |-> SetMax(SeqRange(birth_years)),
              most_common |-> ModeOf(birth_years),
              average_age |-> RoundDiv(2024 * n - SumSeq(birth_years), n),
              young |-> young, adult |-> adult, senior |-> senior,
              young_pct |-> PctTenths(young, n),
              adult_pct |-> PctTenths(adult, n),
              senior_pct |-> PctTenths(senior, n)]

AnalyzeUserDemographics(d, current_year) ==
    IF d = None \/ LenDF(d) = 0
    THEN [status |-> "skipped"]
    ELSE LET UserType(r) == r.User_Type
             Gender(r) == r.Gender
         IN  [status |-> "computed",
              user_types |-> IF "User Type" \in d.columns
                             THEN [status |-> "computed",
                                   dist |-> ValueCounts(d.rows, UserType, LenDF(d))]
                             ELSE [status |-> "omitted"],
              gender |-> IF "Gender" \in d.columns
                         THEN [status |-> "computed",
                               dist |-> ValueCounts(d.rows, Gender, LenDF(d))]
                         ELSE [status |-> "unavailable"],
              birth_year |-> IF "Birth Year" \in d.columns
                             THEN BirthYearStats(d, current_year)
                             ELSE [status |-> "unavailable"]]

(***************************************************************************)
(* BikeShareAnalyzer.analyze_usage_patterns.  It assigns the column        *)
(* is_weekend on self.df: `frame` is self.df afterwards.                   *)
(***************************************************************************)
\* The three largest groups of groupby(key).size(), ties in key order.
RECURSIVE NLargest(_, _, _)
NLargest(k, keys, size) ==
    IF k = 0 \/ keys = {} THEN <<>>
    ELSE LET top == SetMax({size[x] : x \in keys})
             first == SetMin({x \in keys : size[x] = top})
         IN  <<first>> \o NLargest(k - 1, keys \ {first}, size)

\* Mutant: the weekend rows are selected into self.df.
WithIsWeekend_Selected(d) ==
    LET Weekend(r) == [r EXCEPT !.is_weekend =
                          r.day_of_week \in {Title(S("saturday")), Title(S("sunday"))}]
        IsWeekend(r) == r.is_weekend
    IN  [columns |-> d.columns \cup {"is_weekend"},
         rows |-> SelectSeq(MapRows(d.rows, Weekend), IsWeekend)]

WithIsWeekend(d) ==
    LET Weekend(r) == [r EXCEPT !.is_weekend =
                          r.day_of_week \in {Title(S("saturday")), Title(S("sunday"))}]
    IN  [columns |-> d.columns \cup {"is_weekend"}, rows |-> MapRows(d.rows, Weekend)]

AnalyzeUsagePatterns(d) ==
    IF d = None \/ LenDF(d) = 0
    THEN [frame |-> d, result |-> [status |-> "skipped"]]
    ELSE LET hours == {d.rows[i].hour : i \in 1..LenDF(d)}
             HourSize(h) == LET At(r) == r.hour = h IN Count(d.rows, At)
             dates == {d.rows[i].date : i \in 1..LenDF(d)}
             DateSize(x) == LET On(r) == r.date = x IN Count(d.rows, On)
             frame == WithIsWeekend(d)
             IsWeekend(r) == r.is_weekend
             IsWeekday(r) == ~r.is_weekend
             weekend_trips == Count(frame.rows, IsWeekend)
             weekday_trips == Count(frame.rows, IsWeekday)
         IN  [frame |-> frame,
              result |->
                [status |-> "computed",
                 busiest_count |-> SetMax({DateSize(x) : x \in dates}),
                 quietest_count |-> SetMin({DateSize(x) : x \in dates}),
                 peak_hours |-> NLargest(3, hours, [h \in hours |-> HourSize(h)]),
                 weekend_trips |-> weekend_trips,
                 weekday_trips |-> weekday_trips,
                 split |-> IF weekend_trips > 0 /\ weekday_trips > 0
                           THEN [status |-> "computed",
                                 weekend_pct |-> PctTenths(weekend_trips, LenDF(d)),
                                 weekday_pct |-> PctTenths(weekday_trips, LenDF(d))]
                           ELSE [status |-> "omitted"]]]

(***************************************************************************)
(* BikeShareAnalyzer.display_summary_stats, analyze_time_patterns and      *)
(* analyze_stations.                                                       *)
(***************************************************************************)
DisplaySummaryStats(d, f) ==
    IF d = None \/ LenDF(d) = 0
    THEN [status |-> "skipped"]
    ELSE [status |-> "computed", total_trips |-> LenDF(d),
          city |-> Title(f.city), month |-> Title(f.month), day |-> Title(f.day)]

\* Series.mode()[0] of a column of strings: the most frequent value, the
\* first in `order` (the sort order of the values) among ties.
ModeByOrder(rows, Val(_), order) ==
    LET vals == {Val(rows[i]) : i \in 1..Len(rows)}
        Freq(v) == LET Is(r) == Val(r) = v IN Count(rows, Is)
        top == SetMax({Freq(v) : v \in vals})
        best == SetMin({SeqIndex(order, v) : v \in {x \in vals : Freq(x) = top}})
    IN  order[best]

\* Day names as str sorts them.
DayNamesSorted == <<Title(S("friday")), Title(S("monday")), Title(S("saturday")),
                    Title(S("sunday")), Title(S("thursday")), Title(S("tuesday")),
                    Title(S("wednesday"))>>

AnalyzeTimePatterns(d, f) ==
    IF d = None \/ LenDF(d) = 0
    THEN [status |-> "skipped"]
    ELSE LET Month(r) == r.month
             Day(r) == r.day_of_week
             Hour(r) == r.hour
             common_month == ModeOf(MapRows(d.rows, Month))
             IsCommonMonth(r) == r.month = common_month
             common_day == ModeByOrder(d.rows, Day, DayNamesSorted)
             IsCommonDay(r) == r.day_of_week = common_day
             common_hour == ModeOf(MapRows(d.rows, Hour))
             IsCommonHour(r) == r.hour = common_hour
             Early(r) == r.hour >= 5 /\ r.hour <= 9
             Evening(r) == r.hour >= 17 /\ r.hour <= 19
             Night(r) == r.hour >= 22 \/ r.hour <= 5
         IN  IF f.month = S("all") /\ common_month <= Len(MONTHS)
                /\ common_month + 1 > Len(MONTHS)
             THEN Raised("IndexError")      \* MONTHS[common_month], line 234
             ELSE [status |-> "computed",
                   month |-> IF f.month = S("all")
                             THEN [status |-> "computed",
                                   month_name |-> IF common_month <= Len(MONTHS)
                                                  THEN Title(MONTHS[common_month + 1])
                                                  ELSE Title(S("unknown")),
                                   month_count |-> Count(d.rows, IsCommonMonth)]
                             ELSE [status |-> "omitted"],
                   day |-> IF f.day = S("all")
                           THEN [status |-> "computed", common_day |-> common_day,
                                 day_count |-> Count(d.rows, IsCommonDay)]
                           ELSE [status |-> "omitted"],
                   common_hour |-> common_hour,
                   hour_count |-> Count(d.rows, IsCommonHour),
                   hour_12 |-> [h |-> IF common_hour % 12 = 0 THEN 12
                                      ELSE common_hour % 12,
                                pm |-> ~(common_hour < 12)],
                   early_morning |-> Count(d.rows, Early),
                   evening_rush |-> Count(d.rows, Evening),
                   night |-> Count(d.rows, Night)]

\* Station names as str sorts them.
StationsSorted == <<"A", "B">>

\* load_and_filter_data reads 'Start Station' and 'End Station' with dtype
\* 'category' (lines 179-185); line 280 adds a str to that categorical
\* Series, which pandas refuses with a TypeError: the assignment of
\* self.df['route'] is never made and the figures after it are not printed.
AnalyzeStations(d) ==
    IF d = None \/ LenDF(d) = 0
    THEN [frame |-> d, result |-> [status |-> "skipped"]]
    ELSE LET Start(r) == r.Start_Station
             End(r) == r.End_Station
             start_station == ModeByOrder(d.rows, Start, StationsSorted)
             end_station == ModeByOrder(d.rows, End, StationsSorted)
             FromStart(r) == r.Start_Station = start_station
             ToEnd(r) == r.End_Station = end_station
         IN  [frame |-> d,
              result |-> [status |-> "raised", error |-> "TypeError",
                          start_station |-> start_station,
                          start_count |-> Count(d.rows, FromStart),
                          end_station |-> end_station,
                          end_count |-> Count(d.rows, ToEnd)]]

(***************************************************************************)
(* BikeshareWebApp.run, lines 573-601: what the dashboard shows for the    *)
(* filtered frame.                                                         *)
(***************************************************************************)
WebDurationMetric(d) ==
    IF "Trip Duration" \in d.columns
    THEN LET HasDur(r) == r.Trip_Duration # NaN
             Dur(r) == r.Trip_Duration
             xs == MapRows(SelectSeq(d.rows, HasDur), Dur)
         IN  IF xs = <<>> THEN [status |-> "nan"]
             ELSE [status |-> "computed",
                   avg_min_tenths |-> RoundDiv(SumSeq(xs) * 10, 60 * Len(xs)),
                   min_min_tenths |-> RoundDiv(SetMin(SeqRange(xs)) * 10, 60),
                   max_min_tenths |-> RoundDiv(SetMax(SeqRange(xs)) * 10, 60)]
    ELSE [status |-> "omitted"]

WebRender(d, current_year) ==
    LET IsWeekend(r) == r.is_weekend
        IsWeekday(r) == ~r.is_weekend
        HasYear(r) == r.Birth_Year # NaN
        Age(r) == current_year - r.Birth_Year
    IN  [status |-> "computed",
         total_trips |-> LenDF(d),
         duration |-> WebDurationMetric(d),
         duration_charts |-> "Trip Duration" \in d.columns,
         ages |-> IF "Birth Year" \in d.columns
                  THEN MapRows(SelectSeq(d.rows, HasYear), Age) ELSE <<>>,
         weekend_trips |-> Count(d.rows, IsWeekend),
         weekday_trips |-> Count(d.rows, IsWeekday)]

(***************************************************************************)
(* demo_enhanced_features: the file it picks, the frame it loads and the   *)
(* figures it prints.                                                      *)
(***************************************************************************)
DemoFiles == <<"chicago.csv", "new_york_city.csv", "washington.csv">>

\* available_files, in data_files order.
AvailableFiles(fs) ==
    LET Exists(n) == fs[n].exists
    IN  SelectSeq(DemoFiles, Exists)

\* Lines 45-54.
DemoLoadData(file) ==
    LET d == DeriveTimeFeatures(DropNaStartTime(ToDatetime(ReadCsv(file))))
        Weekend(r) == [r EXCEPT !.is_weekend = IsWeekendDay(r.day_of_week)]
    IN  [columns |-> d.columns \cup {"is_weekend"},
         rows |-> MapRows(d.rows, Weekend)]

\* Lines 63-91.  On a frame without rows df['hour'].mode() is empty and its
\* [0] raises KeyError, which the except clause of line 102 reports.
DemoAnalytics(d) ==
    IF LenDF(d) = 0
    THEN Raised("KeyError")
    ELSE LET Hour(r) == r.hour
             peak_hour == ModeOf(MapRows(d.rows, Hour))
             AtPeak(r) == r.hour = peak_hour
             IsWeekend(r) == r.is_weekend
             IsWeekday(r) == ~r.is_weekend
         IN  [status |-> "computed",
              total_trips |-> LenDF(d),
              peak_hour |-> peak_hour,
              peak_count |-> Count(d.rows, AtPeak),
              weekend_trips |-> Count(d.rows, IsWeekend),
              weekday_trips |-> Count(d.rows, IsWeekday),
              duration |-> "Trip Duration" \in d.columns]

(***************************************************************************)
(* The data files.                                                         *)
(***************************************************************************)
FileNames == {"chicago.csv", "new_york_city.csv", "washington.csv"}

\* BikeShareAnalyzer.CITY_DATA and BikeshareWebApp.CITY_DATA.
CITY_DATA(city) ==
    CASE city = S("chicago") -> "chicago.csv"
      [] city = S("new york city") -> "new_york_city.csv"
      [] city = S("washington") -> "washington.csv"

WEB_CITY_DATA(city) ==
    CASE city = Title(S("chicago")) -> "chicago.csv"
      [] city = Title(S("new york city")) -> "new_york_city.csv"
      [] city = Title(S("washington")) -> "washington.csv"

MissingFile == [exists |-> FALSE, columns |-> {}, rows |-> <<>>]

CsvFile(columns, rows) == [exists |-> TRUE, columns |-> columns, rows |-> rows]

\* Rows that differ in their start time (the last one does not parse).
TimeRows ==
    <<RawRow(TS(1, 2, 8), 300, "Subscriber", "Male", 1990, "A", "B"),
      RawRow(TS(1, 7, 17), 300, "Subscriber", "Male", 1990, "A", "B"),
      RawRow(TS(6, 5, 8), 300, "Subscriber", "Male", 1990, "A", "B"),
      RawRow(TS(6, 4, 23), 300, "Subscriber", "Male", 1990, "A", "B"),
      RawRow(TS(7, 1, 0), 300, "Subscriber", "Male", 1990, "A", "B"),
      RawRow(NaT, 300, "Subscriber", "Male", 1990, "A", "B")>>

\* Rows that differ in the columns the statistics read.
StatRows ==
    <<RawRow(TS(1, 2, 8), 300, "Subscriber", "Male", 1990, "A", "B"),
      RawRow(TS(1, 2, 8), 600, "Customer", NaNStr, NaN, "A", "A"),
      RawRow(TS(1, 7, 17), 601, "Subscriber", "Female", 1960, "B", "A"),
      RawRow(TS(1, 2, 17), 900, NaNStr, "Male", 2005, "A", "B"),
      RawRow(TS(1, 7, 17), 1800, "Customer", "Female", 1999, "B", "B"),
      RawRow(TS(6, 4, 23), 2000, "Subscriber", "Male", 1979, "A", "B"),
      RawRow(TS(1, 2, 8), NaN, "Subscriber", "Male", 1990, "A", "B")>>

\* The files of at most `max` rows drawn from `pool`, in pool order.
RowChoices(pool, max) ==
    {ix \in UNION {[1..n -> 1..Len(pool)] : n \in 0..max} :
        \A i \in 1..Len(ix) - 1 : ix[i] <= ix[i + 1]}

RowsOf(pool, ix) == [i \in 1..Len(ix) |-> pool[ix[i]]]

\* New York City's file has no Trip Duration column, Washington's file has
\* neither Gender nor Birth Year.
NycFile ==
    CsvFile(RawColumns \ {"Trip Duration"},
            <<RawRow(TS(1, 2, 8), NaN, "Subscriber", "Male", 1990, "A", "B"),
              RawRow(TS(1, 7, 17), NaN, "Customer", NaNStr, NaN, "B", "A")>>)

WashingtonFile ==
    CsvFile(RawColumns \ {"Gender", "Birth Year"},
            <<RawRow(TS(6, 5, 8), 900, "Subscriber", NaNStr, NaN, "A", "B")>>)

\* A file that has no Start Time column.
NoStartTimeFile ==
    CsvFile(RawColumns \ {"Start Time"},
            <<RawRow(TS(6, 5, 8), 900, "Subscriber", "Male", 1990, "A", "B")>>)

\* spec.md, section 8, scenario 5: weekdays Monday, Monday, Tuesday with
\* hours 8, 8, 17.
\* Two more files, of a month after July (August, December).
TimeScenarios ==
    {<<TimeRows[1], TimeRows[1],
       RawRow(TS(1, 3, 17), 300, "Subscriber", "Male", 1990, "A", "B")>>,
     <<RawRow(TS(8, 15, 8), 300, "Subscriber", "Male", 1990, "A", "B")>>,
     <<RawRow(TS(12, 25, 8), 300, "Subscriber", "Male", 1990, "A", "B")>>}

\* spec.md, section 8, scenario 6: trip durations {300, 900, 2000}.
\* Two more files, with trips of less than a minute, of whole minutes and
\* of an hour and more.
StatScenarios ==
    {<<StatRows[1], StatRows[4], StatRows[6]>>,
     <<RawRow(TS(1, 2, 8), 45, "Subscriber", "Male", 1990, "A", "B"),
       RawRow(TS(1, 7, 17), 3600, "Subscriber", "Male", 1990, "A", "B"),
       RawRow(TS(6, 4, 23), 3661, "Subscriber", "Male", 1990, "A", "B")>>,
     <<RawRow(TS(1, 2, 8), 0, "Subscriber", "Male", 1990, "A", "B"),
       RawRow(TS(1, 7, 17), 60, "Subscriber", "Male", 1990, "A", "B"),
       RawRow(TS(6, 4, 23), 7200, "Subscriber", "Male", 1990, "A", "B")>>}

FileSets(pool, max, scenarios) ==
    {[n \in FileNames |->
        CASE n = "chicago.csv" -> CsvFile(RawColumns, rows)
          [] n = "new_york_city.csv" -> NycFile
          [] n = "washington.csv" -> WashingtonFile] :
        rows \in {RowsOf(pool, ix) : ix \in RowChoices(pool, max)} \cup scenarios}
    \cup
    {[n \in FileNames |->
        CASE n = "chicago.csv" -> chicago
          [] n = "new_york_city.csv" -> nyc
          [] n = "washington.csv" -> washington] :
        chicago \in {CsvFile(RawColumns, <<pool[1]>>), MissingFile},
        nyc \in {NycFile, MissingFile},
        washington \in {WashingtonFile, MissingFile, NoStartTimeFile}}

(***************************************************************************)
(* What the user types at a prompt, and what the user picks in the sidebar.*)
(***************************************************************************)
Typed(words, digits) ==
    {[w |-> w, form |-> f, pad |-> p] : w \in words, f \in Forms, p \in BOOLEAN}
    \cup {[w |-> n, form |-> "lower", pad |-> p] : n \in digits, p \in BOOLEAN}

TypedCities == Typed({"chicago", "washington", "paris"}, {"2", "9"})

TypedMonths == Typed({"all", "january", "june", "july"}, {"0", "1", "7", "9"})

TypedDays == Typed({"all", "monday", "saturday", "funday"}, {"2", "9"})

TypedRestart == Typed({"yes", "y", "no", "n", "maybe"}, {})

PickedDays == {Title(S(w)) : w \in {"all", "monday", "saturday"}}

HourMarks == {0, 8, 23}

HourRanges == {<<lo, hi>> \in HourMarks \X HourMarks : lo <= hi}

ClockYears == {2024, 2026}

(***************************************************************************)
(* State after construction.  "cli" is BikeShareAnalyzer.run_analysis;     *)
(* "api" is a caller that drives the same analyzer through its public      *)
(* methods, running the statistic groups in an order of its choice and     *)
(* catching what a group raises; "web" is BikeshareWebApp.run.             *)
(***************************************************************************)
Apps == {"cli", "api", "web", "demo"}

NoInput == [city |-> S(""), month |-> S(""), day |-> S("")]

EmptyReport ==
    [notice |-> "", summary |-> NotRun, time |-> NotRun, stations |-> NotRun,
     duration |-> NotRun, demographics |-> NotRun, usage |-> NotRun, web |-> NotRun,
     demo |-> NotRun]

InitWith(pool, max, scenarios) ==
    /\ app \in Apps
    /\ files \in FileSets(pool, max, scenarios)
    /\ pc = CASE app = "cli" -> "validate"
              [] app = "api" -> "ask_city"
              [] app = "web" -> "sidebar"
              [] app = "demo" -> "demo_load"
    /\ filters = None
    /\ df = None
    /\ self_df = None
    /\ self_filters = None
    /\ input = NoInput
    /\ report = EmptyReport
    /\ sidebar = None
    /\ filtered_df = None
    /\ queries = 0

Init == InitWith(TimeRows, MaxRows, TimeScenarios)

InitStats == InitWith(StatRows, MaxStatRows, StatScenarios)

(***************************************************************************)
(* BikeShareAnalyzer: validate_data_files, get_user_filters.               *)
(***************************************************************************)
ValidateDataFiles ==
    /\ app = "cli" /\ pc = "validate"
    /\ IF \A n \in FileNames : files[n].exists
       THEN pc' = "ask_city" /\ UNCHANGED report
       ELSE pc' = "exit" /\ report' = [report EXCEPT !.notice = "cannot_proceed"]
    /\ UNCHANGED <<app, files, filters, df, self_df, self_filters, input,
                   sidebar, filtered_df, queries>>

\* Mutant: text is returned without the test `user_input in valid_options`.
ValidatedInput_AnyText(typed, valid_options) ==
    LET user_input == Lower(Strip(typed))
    IN  IF IsDigit(user_input)
        THEN LET index == IntOf(user_input) - 1
             IN  IF 0 <= index /\ index < Len(valid_options)
                 THEN [ok |-> TRUE, value |-> valid_options[index + 1]]
                 ELSE [ok |-> FALSE, value |-> S("")]
        ELSE [ok |-> TRUE, value |-> user_input]

\* One pass of the loop of _get_validated_input (allow_numbers=True): the
\* value returned, or ok = FALSE when the prompt is repeated.
ValidatedInput(typed, valid_options) ==
    LET user_input == Lower(Strip(typed))
    IN  IF IsDigit(user_input)
        THEN LET index == IntOf(user_input) - 1
             IN  IF 0 <= index /\ index < Len(valid_options)
                 THEN [ok |-> TRUE, value |-> valid_options[index + 1]]
                 ELSE [ok |-> FALSE, value |-> S("")]
        ELSE IF InSeq(user_input, valid_options)
             THEN [ok |-> TRUE, value |-> user_input]
             ELSE [ok |-> FALSE, value |-> S("")]

AskCity ==
    /\ app \in {"cli", "api"} /\ pc = "ask_city"
    /\ queries < MaxQueries
    /\ \E typed \in TypedCities :
          LET r == ValidatedInput(typed, CITY_KEYS)
          IN  IF r.ok
              THEN /\ input' = [NoInput EXCEPT !.city = r.value]
                   /\ pc' = "ask_month"
                   /\ report' = EmptyReport
                   /\ queries' = queries + 1
              ELSE UNCHANGED <<input, pc, report, queries>>
    /\ UNCHANGED <<app, files, filters, df, self_df, self_filters, sidebar,
                   filtered_df>>

AskMonth ==
    /\ app \in {"cli", "api"} /\ pc = "ask_month"
    /\ \E typed \in TypedMonths :
          LET r == ValidatedInput(typed, MONTHS)
          IN  IF r.ok
              THEN input' = [input EXCEPT !.month = r.value] /\ pc' = "ask_day"
              ELSE UNCHANGED <<input, pc>>
    /\ UNCHANGED <<app, files, filters, df, self_df, self_filters, report,
                   sidebar, filtered_df, queries>>

AskDay ==
    /\ app \in {"cli", "api"} /\ pc = "ask_day"
    /\ \E typed \in TypedDays :
          LET r == ValidatedInput(typed, DAYS)
          IN  IF r.ok
              THEN /\ input' = [input EXCEPT !.day = r.value]
                   /\ filters' = FilterConfig(input.city, input.month, r.value)
                   /\ self_filters' = FilterConfig(input.city, input.month, r.value)
                   /\ pc' = "load"
              ELSE UNCHANGED <<input, filters, self_filters, pc>>
    /\ UNCHANGED <<app, files, df, self_df, report, sidebar, filtered_df, queries>>

(***************************************************************************)
(* BikeShareAnalyzer.load_and_filter_data and its call in run_analysis.    *)
(***************************************************************************)
\* Mutant: a frame without rows is raised as an error.
LoadAndFilterData_RaiseOnEmpty(file, f, old_self_df) ==
    IF ~file.exists \/ ~HasStartTime(file) \/ LenDF(CliFiltered(file, f)) = 0
    THEN [raised |-> TRUE, ret |-> None, self_df |-> old_self_df,
          notice |-> "file_not_found"]
    ELSE LET d == CliFiltered(file, f)
         IN  [raised |-> FALSE, ret |-> d, self_df |-> d, notice |-> "loaded"]

\* What the call does: whether it raises, the frame it returns, self.df
\* afterwards, and what it tells the user.
LoadAndFilterData(file, f, old_self_df) ==
    IF ~file.exists
    THEN [raised |-> TRUE, ret |-> None, self_df |-> old_self_df,
          notice |-> "file_not_found"]
    ELSE IF ~HasStartTime(file)
    THEN [raised |-> TRUE, ret |-> None, self_df |-> old_self_df,
          notice |-> "load_error"]
    ELSE LET d == CliFiltered(file, f)
         IN  IF LenDF(d) = 0
             THEN [raised |-> FALSE, ret |-> EmptyDataFrame, self_df |-> old_self_df,
                   notice |-> "no_data"]
             ELSE [raised |-> FALSE, ret |-> d, self_df |-> d, notice |-> "loaded"]

\* run_analysis after the call: the except clause ends the session, an
\* empty frame goes back to the prompts (`continue`), else the groups run.
\* Mutant: no `continue` on an empty frame.
AfterLoad_NoContinue(call) ==
    IF call.raised THEN IF app = "cli" THEN "exit" ELSE "ask_city"
    ELSE IF app = "cli" THEN "summary" ELSE "analyses"

AfterLoad(call) ==
    IF call.raised THEN IF app = "cli" THEN "exit" ELSE "ask_city"
    ELSE IF LenDF(call.ret) = 0 THEN "ask_city"
    ELSE IF app = "cli" THEN "summary" ELSE "analyses"

Load ==
    /\ app \in {"cli", "api"} /\ pc = "load"
    /\ LET call == LoadAndFilterData(files[CITY_DATA(filters.city)], filters, self_df)
       IN  /\ df' = IF call.raised THEN df ELSE call.ret
           /\ self_df' = call.self_df
           /\ report' = [report EXCEPT !.notice = call.notice]
           /\ pc' = AfterLoad(call)
    /\ UNCHANGED <<app, files, filters, self_filters, input, sidebar,
                   filtered_df, queries>>

(***************************************************************************)
(* The statistic groups, in run_analysis order (lines 474-479) for "cli"   *)
(* and in any order for "api".  An exception leaves run_analysis through   *)
(* its except clause (line 494), which ends the session.                   *)
(***************************************************************************)
NextStep(group) ==
    CASE group = "summary" -> "time"
      [] group = "time" -> "stations"
      [] group = "stations" -> "duration"
      [] group = "duration" -> "demographics"
      [] group = "demographics" -> "usage"
      [] group = "usage" -> "restart"

MayRun(group) ==
    \/ app = "cli" /\ pc = group
    \/ app = "api" /\ pc = "analyses" /\ report[group].status = "notrun"

Ran(group, result, frame) ==
    /\ report' = [report EXCEPT ![group] = result,
                                !.notice = IF app = "cli" /\ result.status = "raised"
                                           THEN "error" ELSE @]
    /\ self_df' = frame
    /\ df' = IF df = self_df THEN frame ELSE df    \* line 212: one object
    /\ pc' = IF app = "api" THEN pc
             ELSE IF result.status = "raised" THEN "exit" ELSE NextStep(group)
    /\ UNCHANGED <<app, files, filters, self_filters, input, sidebar,
                   filtered_df, queries>>

Summary ==
    /\ app = "cli" /\ pc = "summary"
    /\ Ran("summary", DisplaySummaryStats(self_df, self_filters), self_df)

TimePatterns ==
    /\ MayRun("time")
    /\ Ran("time", AnalyzeTimePatterns(self_df, self_filters), self_df)

Stations ==
    /\ MayRun("stations")
    /\ LET call == AnalyzeStations(self_df)
       IN  Ran("stations", call.result, call.frame)

TripDuration ==
    /\ MayRun("duration")
    /\ Ran("duration", AnalyzeTripDuration(self_df), self_df)

UserDemographics ==
    /\ MayRun("demographics")
    /\ \E current_year \in ClockYears :
          Ran("demographics", AnalyzeUserDemographics(self_df, current_year), self_df)

UsagePatterns ==
    /\ MayRun("usage")
    /\ LET call == AnalyzeUsagePatterns(self_df)
       IN  Ran("usage", call.result, call.frame)

\* run_analysis, lines 483-490.  pc = "restart" is not reached: Stations
\* raises on every frame that has rows, so Restart is no disjunct of Next.
Restart ==
    /\ app = "cli" /\ pc = "restart"
    /\ \E typed \in TypedRestart :
          LET restart == Strip(Lower(typed))
          IN  IF restart \in {S("yes"), S("y"), S("no"), S("n")}
              THEN pc' = IF restart \in {S("no"), S("n")} THEN "exit" ELSE "ask_city"
              ELSE UNCHANGED pc
    /\ UNCHANGED <<app, files, filters, df, self_df, self_filters, input, report,
                   sidebar, filtered_df, queries>>

\* The "api" caller turns to its next query.
NewQuery ==
    /\ app = "api" /\ pc = "analyses"
    /\ pc' = "ask_city"
    /\ report' = EmptyReport
    /\ UNCHANGED <<app, files, filters, df, self_df, self_filters, input,
                   sidebar, filtered_df, queries>>

(***************************************************************************)
(* BikeshareWebApp.run: one run of the script (every change of a widget    *)
(* runs it anew from the top, on a new BikeshareWebApp).                   *)
(***************************************************************************)
CreateSidebar ==
    /\ app = "web" /\ pc = "sidebar"
    /\ \E city \in SeqRange(WEB_CITIES), month \in SeqRange(WEB_MONTHS),
          day \in PickedDays, hour_range \in HourRanges :
          sidebar' = [city |-> city, month |-> month, day |-> day,
                      hour_range |-> hour_range]
    /\ pc' = "load_data"
    /\ UNCHANGED <<app, files, filters, df, self_df, self_filters, input, report,
                   filtered_df, queries>>

LoadData ==
    /\ app = "web" /\ pc = "load_data"
    /\ df' = WebLoadData(files[WEB_CITY_DATA(sidebar.city)])
    /\ IF LenDF(df') = 0
       THEN /\ pc' = "done"
            \* st.error of line 96 or 120 (then that of line 559), or of
            \* line 559 alone
            /\ report' = [report EXCEPT !.notice =
                              IF ~files[WEB_CITY_DATA(sidebar.city)].exists
                              THEN "file_not_found"
                              ELSE IF ~HasStartTime(files[WEB_CITY_DATA(sidebar.city)])
                              THEN "load_error"
                              ELSE "no_data_available"]
       ELSE pc' = "filter_data" /\ UNCHANGED report
    /\ UNCHANGED <<app, files, filters, self_df, self_filters, input, sidebar,
                   filtered_df, queries>>

FilterDataStep ==
    /\ app = "web" /\ pc = "filter_data"
    /\ LET call == FilterData(df, sidebar.month, sidebar.day, sidebar.hour_range)
       IN  /\ df' = call.src
           /\ filtered_df' = call.out
           /\ IF LenDF(call.out) = 0
              THEN pc' = "done" /\ report' = [report EXCEPT !.notice = "no_match"]
              ELSE pc' = "render" /\ report' = [report EXCEPT !.notice = "loaded"]
    /\ UNCHANGED <<app, files, filters, self_df, self_filters, input, sidebar, queries>>

Render ==
    /\ app = "web" /\ pc = "render"
    /\ \E current_year \in ClockYears :
          report' = [report EXCEPT !.web = WebRender(filtered_df, current_year)]
    /\ pc' = "done"
    /\ UNCHANGED <<app, files, filters, df, self_df, self_filters, input, sidebar,
                   filtered_df, queries>>

(***************************************************************************)
(* demo_enhanced_features.                                                 *)
(***************************************************************************)
DemoLoad ==
    /\ app = "demo" /\ pc = "demo_load"
    /\ LET available_files == AvailableFiles(files)
       IN  IF available_files = <<>>
           THEN /\ pc' = "done"
                /\ report' = [report EXCEPT !.notice = "no_files"]
                /\ UNCHANGED df
           ELSE IF ~HasStartTime(files[available_files[1]])
           THEN /\ pc' = "done"                 \* KeyError at line 46
                /\ report' = [report EXCEPT !.notice = "error"]
                /\ UNCHANGED df
           ELSE /\ pc' = "demo_analytics"
                /\ report' = [report EXCEPT !.notice = "loaded"]
                /\ df' = DemoLoadData(files[available_files[1]])
    /\ UNCHANGED <<app, files, filters, self_df, self_filters, input, sidebar,
                   filtered_df, queries>>

DemoReport ==
    /\ app = "demo" /\ pc = "demo_analytics"
    /\ report' = [report EXCEPT !.demo = DemoAnalytics(df),
                                !.notice = IF LenDF(df) = 0 THEN "error" ELSE @]
    /\ pc' = "done"
    /\ UNCHANGED <<app, files, filters, df, self_df, self_filters, input, sidebar,
                   filtered_df, queries>>

Next ==
    \/ ValidateDataFiles
    \/ AskCity
    \/ AskMonth
    \/ AskDay
    \/ Load
    \/ Summary
    \/ TimePatterns
    \/ Stations
    \/ TripDuration
    \/ UserDemographics
    \/ UsagePatterns
    \/ NewQuery
    \/ CreateSidebar
    \/ LoadData
    \/ FilterDataStep
    \/ Render
    \/ DemoLoad
    \/ DemoReport

Spec == Init /\ [][Next]_vars

SpecStats == InitStats /\ [][Next]_vars

(***************************************************************************)
(* The filter properties (spec.md, section 8, properties 1 and 2).         *)
(***************************************************************************)
Groups == {"summary", "time", "stations", "duration", "demographics", "usage"}

NoGroupRan == \A g \in Groups : report[g].status = "notrun"

\* load_and_filter_data has just returned to run_analysis / to the caller.
JustLoaded ==
    /\ app \in {"cli", "api"}
    /\ report.notice \in {"loaded", "no_data"}
    /\ NoGroupRan

\* filter_data has returned to run.
JustFiltered == app = "web" /\ report.notice \in {"loaded", "no_match"}

\* The records load_and_filter_data ingests for the query's city.
Ingested == CliPreprocess(files[CITY_DATA(filters.city)]).rows

FullDay == <<0, 23>>

WebAll == Title(S("all"))

\* January = 1 ... June = 6.
MonthPosition(w) ==
    CASE w = "january" -> 1 [] w = "february" -> 2 [] w = "march" -> 3
      [] w = "april" -> 4 [] w = "may" -> 5 [] w = "june" -> 6 [] OTHER -> 0

MonthKeeps(w, r) == w = "all" \/ r.month = MonthPosition(w)

\* Equality of day names ignoring case and surrounding white space.
DayKeeps(w, r) == w = "all" \/ r.day_of_week.w = w

HourKeeps(hour_range, r) == hour_range[1] <= r.hour /\ r.hour <= hour_range[2]

\* C1: with no other filter set, the filtered dataset holds exactly the
\* ingested records whose derived month is the position of the selected
\* month in January..June (January = 1), in both front ends; the selection
\* 'all' removes no record.
C1_MonthFilter ==
    /\ (JustLoaded /\ filters.day = S("all")) =>
          LET Keep(r) == MonthKeeps(filters.month.w, r)
          IN  df.rows = SelectSeq(Ingested, Keep)
    /\ (JustFiltered /\ sidebar.day = WebAll /\ sidebar.hour_range = FullDay) =>
          LET Keep(r) == MonthKeeps(sidebar.month.w, r)
          IN  filtered_df.rows = SelectSeq(df.rows, Keep)

\* A query for June over a file with a June record and a record of another
\* month has kept the June record alone.
C1_Witness ==
    /\ JustLoaded /\ filters.month = S("june") /\ filters.day = S("all")
    /\ Len(Ingested) = 2 /\ LenDF(df) = 1 /\ df.rows[1].month = 6

\* C2: with no other filter set, the filtered dataset holds exactly the
\* records whose weekday name equals the requested day ignoring case, for
\* every way of typing the day (lower, title or upper case, with or without
\* surrounding white space) and for every day picked in the sidebar; the
\* selection 'all' removes no record.
C2_WeekdayFilter ==
    /\ (JustLoaded /\ filters.month = S("all")) =>
          /\ LET Keep(r) == DayKeeps(filters.day.w, r)
             IN  df.rows = SelectSeq(Ingested, Keep)
          /\ \A typed \in TypedDays :
                LET answer == ValidatedInput(typed, DAYS)
                    f == FilterConfig(filters.city, filters.month, answer.value)
                    Keep(r) == DayKeeps(typed.w, r)
                IN  (answer.ok /\ ~IsDigit(typed)) =>
                       CliFiltered(files[CITY_DATA(filters.city)], f).rows
                          = SelectSeq(Ingested, Keep)
    /\ (JustFiltered /\ sidebar.month = WebAll /\ sidebar.hour_range = FullDay) =>
          LET Keep(r) == DayKeeps(sidebar.day.w, r)
          IN  filtered_df.rows = SelectSeq(df.rows, Keep)

\* A query for Saturday, which " SATURDAY " also asks for, over a file with
\* a Saturday record and a record of another day has kept the Saturday
\* record alone.
C2_Witness ==
    /\ JustLoaded /\ filters.month = S("all") /\ filters.day = S("saturday")
    /\ Len(Ingested) = 2 /\ LenDF(df) = 1
    /\ df.rows[1].day_of_week = Title(S("saturday"))
    /\ \E typed \in TypedDays :
          /\ typed.form = "upper" /\ typed.pad
          /\ ValidatedInput(typed, DAYS) = [ok |-> TRUE, value |-> filters.day]

\* C3: with no other filter set, filter_data keeps exactly the records with
\* low <= hour <= high, both bounds included; the range (0, 23) removes no
\* record.
C3_HourRangeFilter ==
    (JustFiltered /\ sidebar.month = WebAll /\ sidebar.day = WebAll) =>
        /\ LET Keep(r) == HourKeeps(sidebar.hour_range, r)
           IN  filtered_df.rows = SelectSeq(df.rows, Keep)
        /\ sidebar.hour_range = FullDay => filtered_df.rows = df.rows

\* The range (8, 8) has kept a record of hour 8 and removed another record.
C3_Witness ==
    /\ JustFiltered /\ sidebar.month = WebAll /\ sidebar.day = WebAll
    /\ sidebar.hour_range = <<8, 8>>
    /\ LenDF(df) = 2 /\ LenDF(filtered_df) = 1 /\ filtered_df.rows[1].hour = 8

\* C4: the filtered dataset is the records that pass the month, the weekday
\* and the hour-range predicate all three, i.e. the intersection of the sets
\* each predicate selects alone; month then weekday selects what weekday
\* then month selects.
C4_FiltersComposeAndCommute ==
    /\ JustLoaded =>
          LET Keep(r) == MonthKeeps(filters.month.w, r) /\ DayKeeps(filters.day.w, r)
              d == CliPreprocess(files[CITY_DATA(filters.city)])
          IN  /\ df.rows = SelectSeq(Ingested, Keep)
              /\ CliDayFilter(CliMonthFilter(d, filters), filters)
                    = CliMonthFilter(CliDayFilter(d, filters), filters)
    /\ JustFiltered =>
          LET Keep(r) == /\ MonthKeeps(sidebar.month.w, r)
                         /\ DayKeeps(sidebar.day.w, r)
                         /\ HourKeeps(sidebar.hour_range, r)
              by_month == FilterData(df, sidebar.month, WebAll, FullDay).out
              by_day == FilterData(df, WebAll, sidebar.day, FullDay).out
              by_hour == FilterData(df, WebAll, WebAll, sidebar.hour_range).out
          IN  /\ filtered_df.rows = SelectSeq(df.rows, Keep)
              /\ SeqRange(filtered_df.rows)
                    = (SeqRange(by_month.rows) \cap SeqRange(by_day.rows))
                         \cap SeqRange(by_hour.rows)
              /\ FilterData(by_month, WebAll, sidebar.day, FullDay).out
                    = FilterData(by_day, sidebar.month, WebAll, FullDay).out

\* A month and a day are both selected; one of the two records of the month
\* is of that day and is the one kept.
C4_Witness ==
    /\ JustFiltered /\ sidebar.month # WebAll /\ sidebar.day # WebAll
    /\ LenDF(df) = 2 /\ LenDF(filtered_df) = 1
    /\ LenDF(FilterData(df, sidebar.month, WebAll, FullDay).out) = 2

\* C5: filtering the filtered dataset again with the same filter spec gives
\* the filtered dataset.
C5_FilterIdempotent ==
    /\ (JustLoaded /\ LenDF(df) > 0) =>
          CliDayFilter(CliMonthFilter(df, filters), filters) = df
    /\ JustFiltered =>
          FilterData(filtered_df, sidebar.month, sidebar.day, sidebar.hour_range).out
             = filtered_df

\* A month, a day and an hour range are selected and have removed a record
\* and kept a record.
C5_Witness ==
    /\ JustFiltered /\ sidebar.month # WebAll /\ sidebar.day # WebAll
    /\ sidebar.hour_range # FullDay
    /\ LenDF(df) = 2 /\ LenDF(filtered_df) = 1

\* C6: after filter_data has returned, run's df is the frame load_data
\* returned: the same records with the same field values, whatever the
\* filter spec selects.
C6_FilterKeepsSource ==
    JustFiltered => df = WebLoadData(files[WEB_CITY_DATA(sidebar.city)])

\* The filter spec has selected nothing from a frame of two records.
C6_Witness ==
    /\ JustFiltered /\ report.notice = "no_match"
    /\ LenDF(filtered_df) = 0 /\ LenDF(df) = 2

(***************************************************************************)
(* The statistic groups (spec.md, section 8, properties 3, 4, 6 and 7).    *)
(***************************************************************************)
RECURSIVE DistTotal(_, _)
DistTotal(dist, cats) ==
    IF cats = {} THEN 0
    ELSE LET c == CHOOSE x \in cats : TRUE
         IN  dist[c].count + DistTotal(dist, cats \ {c})

RECURSIVE DistPctTotal(_, _)
DistPctTotal(dist, cats) ==
    IF cats = {} THEN 0
    ELSE LET c == CHOOSE x \in cats : TRUE
         IN  dist[c].pct + DistPctTotal(dist, cats \ {c})

\* `total` tenths of a percent are 100% up to the rounding of k figures.
WholeWithinRounding(total, k) == 1000 - k <= total /\ total <= 1000 + k

\* C7: in every bucketed statistic the analyzer reports, the bucket counts
\* sum to the number of filtered records and the percentages to 100% within
\* rounding, also when records lack the field that is bucketed.
C7_BucketsCoverFilteredSet ==
    LET n == LenDF(self_df)
        dur == report.duration
        dem == report.demographics
        use == report.usage
    IN  /\ dur.status = "computed" =>
              /\ dur.short_trips + dur.medium_trips + dur.long_trips = n
              /\ WholeWithinRounding(dur.short_pct + dur.medium_pct + dur.long_pct, 3)
        /\ dem.status = "computed" =>
              /\ dem.user_types.status = "computed" =>
                    LET dist == dem.user_types.dist
                    IN  /\ DistTotal(dist, DOMAIN dist) = n
                        /\ WholeWithinRounding(DistPctTotal(dist, DOMAIN dist), 3)
              /\ dem.gender.status = "computed" =>
                    LET dist == dem.gender.dist
                    IN  /\ DistTotal(dist, DOMAIN dist) = n
                        /\ WholeWithinRounding(DistPctTotal(dist, DOMAIN dist), 3)
              /\ dem.birth_year.status = "computed" =>
                    dem.birth_year.young + dem.birth_year.adult
                       + dem.birth_year.senior = n
        /\ use.status = "computed" => use.weekend_trips + use.weekday_trips = n

\* C8: the short bucket counts the trips of at most 600 seconds, the medium
\* bucket those of 601 to 1800 seconds, the long bucket those of more than
\* 1800 seconds, so that every trip that has a duration is counted once;
\* each percentage is the bucket's count over the number of filtered
\* records, to one decimal.
C8_DurationBuckets ==
    report.duration.status = "computed" =>
        LET rows == self_df.rows
            n == Len(rows)
            timed == {i \in 1..n : rows[i].Trip_Duration # NaN}
            short == {i \in timed : rows[i].Trip_Duration <= 600}
            medium == {i \in timed : 601 <= rows[i].Trip_Duration
                                      /\ rows[i].Trip_Duration <= 1800}
            long == {i \in timed : rows[i].Trip_Duration > 1800}
            Nearest(pct, count) ==
                   2 * (pct * n - 1000 * count) <= n
                /\ 2 * (1000 * count - pct * n) <= n
            dur == report.duration
        IN  /\ dur.short_trips = Cardinality(short)
            /\ dur.medium_trips = Cardinality(medium)
            /\ dur.long_trips = Cardinality(long)
            /\ dur.short_trips + dur.medium_trips + dur.long_trips = Cardinality(timed)
            /\ Nearest(dur.short_pct, dur.short_trips)
            /\ Nearest(dur.medium_pct, dur.medium_trips)
            /\ Nearest(dur.long_pct, dur.long_trips)

\* Trip durations 300, 900 and 2000: one trip in each bucket, 33.3% each.
C8_Witness ==
    /\ report.duration.status = "computed"
    /\ LenDF(self_df) = 3
    /\ {self_df.rows[i].Trip_Duration : i \in 1..3} = {300, 900, 2000}
    /\ report.duration.short_trips = 1 /\ report.duration.short_pct = 333
    /\ report.duration.medium_trips = 1 /\ report.duration.medium_pct = 333
    /\ report.duration.long_trips = 1 /\ report.duration.long_pct = 333

\* The query's statistic groups have all been asked for.
ReportComplete ==
    \/ app = "cli" /\ pc \in {"restart", "exit"} /\ report.notice \in {"loaded", "error"}
    \/ app = "api" /\ report.notice = "loaded"
          /\ \A g \in Groups \ {"summary"} : report[g].status # "notrun"

\* C9: for a dataset without the Trip Duration column the duration group is
\* reported as unavailable, with no figure, and the time, station,
\* demographic and usage groups are computed; the dashboard shows no
\* duration figure and is rendered.
C9_MissingDurationColumn ==
    /\ (ReportComplete /\ "Trip Duration" \notin self_df.columns) =>
          /\ report.duration = [status |-> "unavailable"]
          /\ \A g \in Groups \ {"summary", "duration"} : report[g].status = "computed"
    /\ (app = "web" /\ pc = "done" /\ report.notice = "loaded"
           /\ "Trip Duration" \notin filtered_df.columns) =>
          /\ report.web.status = "computed"
          /\ report.web.duration = [status |-> "omitted"]
          /\ ~report.web.duration_charts

\* C10: when the filters leave no record of a file that is there, the user
\* is told that there is no data for the filters, no statistic group is
\* computed, nothing is raised, and the command-line loop is back at the
\* filter prompts / the dashboard run has ended.
C10_NoDataNoGroups ==
    /\ (/\ app \in {"cli", "api"}
        /\ report.notice \notin {"", "cannot_proceed"}
        /\ files[CITY_DATA(filters.city)].exists
        /\ HasStartTime(files[CITY_DATA(filters.city)])
        /\ LenDF(CliFiltered(files[CITY_DATA(filters.city)], filters)) = 0) =>
          /\ report.notice = "no_data"
          /\ pc = "ask_city"
          /\ NoGroupRan
    /\ (/\ app = "web" /\ pc \in {"render", "done"}
        /\ LenDF(df) > 0
        /\ LenDF(FilterData(df, sidebar.month, sidebar.day,
                            sidebar.hour_range).out) = 0) =>
          /\ report.notice = "no_match"
          /\ pc = "done"
          /\ report.web.status = "notrun"

\* The command-line query has filtered a file of two records down to none
\* and is back at the city prompt.
C10_Witness ==
    /\ app = "cli" /\ report.notice = "no_data" /\ pc = "ask_city"
    /\ Len(Ingested) = 2 /\ LenDF(df) = 0

(***************************************************************************)
(* Empty and missing data sources, validated input (spec.md, sections 6    *)
(* and 8).                                                                 *)
(***************************************************************************)
\* The file of the query's city, for the command line and for the dashboard.
QueryFile == files[CITY_DATA(filters.city)]

SidebarFile == files[WEB_CITY_DATA(sidebar.city)]

\* load_and_filter_data has been called in the current query.
LoadCalled == app \in {"cli", "api"} /\ report.notice \notin {"", "cannot_proceed"}

\* load_data has been called in the current run.
LoadDataCalled == app = "web" /\ pc \notin {"sidebar", "load_data"}

C12_MissingSourceFails ==
    /\ (LoadCalled /\ ~QueryFile.exists) =>
          /\ report.notice = "file_not_found"
          /\ NoGroupRan
    /\ (LoadDataCalled /\ ~SidebarFile.exists) =>
          /\ report.notice = "file_not_found"
          /\ df = None
          /\ report.web.status = "notrun"

\* C13: when loading fails in the command-line loop the failure is shown to
\* the user, the load is not tried again, and the loop is back at the
\* filter prompts for a new selection.
C13_FailureAbortsQueryOnly ==
    (app = "cli" /\ report.notice \in {"file_not_found", "load_error"}) =>
        pc \in {"ask_city", "ask_month", "ask_day"}

\* The number a digit string stands for.
NumberTyped(typed) ==
    CASE typed.w = "0" -> 0 [] typed.w = "1" -> 1 [] typed.w = "2" -> 2
      [] typed.w = "7" -> 7 [] typed.w = "9" -> 9 [] OTHER -> -1

\* Of the answers `answers` to a prompt with the options `valid_options`,
\* those and only those are accepted that are, in lower case and stripped,
\* an option or a number from 1 to the number of options, and what is
\* returned for them is an option.
OnlyOptionsAccepted(answers, valid_options) ==
    \A typed \in answers :
       LET answer == ValidatedInput(typed, valid_options)
           listed == \E i \in 1..Len(valid_options) : valid_options[i].w = typed.w
           numbered == 1 <= NumberTyped(typed)
                          /\ NumberTyped(typed) <= Len(valid_options)
       IN  /\ answer.ok <=> (listed \/ numbered)
           /\ answer.ok => answer.value \in SeqRange(valid_options)

\* C14: at each prompt _get_validated_input returns only a member of the
\* option list, asking again on any other text and on any number outside
\* 1..len(options); the answers read so far and the filters that
\* load_and_filter_data is called with are a catalog city, a month of all,
\* january..june and a day of all, monday..sunday.
C14_OnlyCatalogSelections ==
    /\ (app \in {"cli", "api"} /\ pc = "ask_city") =>
          OnlyOptionsAccepted(TypedCities, CITY_KEYS)
    /\ (app \in {"cli", "api"} /\ pc = "ask_month") =>
          OnlyOptionsAccepted(TypedMonths, MONTHS)
    /\ (app \in {"cli", "api"} /\ pc = "ask_day") =>
          OnlyOptionsAccepted(TypedDays, DAYS)
    /\ app \in {"cli", "api"} =>
          /\ input.city \in SeqRange(CITY_KEYS) \cup {S("")}
          /\ input.month \in SeqRange(MONTHS) \cup {S("")}
          /\ input.day \in SeqRange(DAYS) \cup {S("")}
          /\ filters # None =>
                /\ filters.city \in SeqRange(CITY_KEYS)
                /\ filters.month \in SeqRange(MONTHS)
                /\ filters.day \in SeqRange(DAYS)

\* load_and_filter_data is about to be called by the command-line loop, in
\* its second query, with filters that were typed as names.
C14_Witness ==
    /\ app = "cli" /\ pc = "load" /\ queries = 2
    /\ filters = [city |-> S("washington"), month |-> S("june"), day |-> S("saturday")]

(***************************************************************************)
(* Ingestion and the statistic groups (spec.md, sections 3 and 4).         *)
(***************************************************************************)
AllTimed(d) == d = None \/ \A i \in 1..LenDF(d) : d.rows[i].Start_Time.ok

\* The number of rows of `file` whose Start Time parses.
TimedRows(file) == Cardinality({i \in 1..Len(file.rows) : file.rows[i].Start_Time.ok})

\* C15: every record of every frame that a front end filters or aggregates
\* has a valid Start Time; a file with records whose Start Time is missing
\* or does not parse loads without error, less those records and no others.
C15_NoRecordWithoutStartTime ==
    /\ AllTimed(df) /\ AllTimed(self_df) /\ AllTimed(filtered_df)
    /\ (JustLoaded /\ filters.month = S("all") /\ filters.day = S("all")) =>
          LenDF(df) = TimedRows(QueryFile)
    /\ (LoadDataCalled /\ SidebarFile.exists /\ HasStartTime(SidebarFile)) =>
          LenDF(df) = TimedRows(SidebarFile)
    /\ (app = "demo" /\ pc # "demo_load" /\ AvailableFiles(files) # <<>>
           /\ HasStartTime(files[AvailableFiles(files)[1]])) =>
          /\ LenDF(df) = TimedRows(files[AvailableFiles(files)[1]])
          /\ pc = "demo_analytics" => report.notice = "loaded"

\* The demonstration has loaded a file of two records, one of them without
\* a Start Time that parses, and has reported on the other one.
C15_Witness ==
    /\ app = "demo" /\ pc = "done" /\ report.demo.status = "computed"
    /\ Len(files["chicago.csv"].rows) = 2 /\ TimedRows(files["chicago.csv"]) = 1
    /\ LenDF(df) = 1

\* The hour `h` reported with the count `count` over `rows`: no hour has
\* more records than h, count is the number of records of hour h, and no
\* hour below h has as many.
IsPeakHour(rows, h, count) ==
    LET Trips(x) == Cardinality({i \in 1..Len(rows) : rows[i].hour = x})
    IN  /\ count = Trips(h)
        /\ \A x \in 0..23 : Trips(x) <= Trips(h)
        /\ \A x \in 0..23 : Trips(x) = Trips(h) => h <= x

\* C16: the peak hour that analyze_time_patterns and the demonstration
\* report has a trip count that no hour exceeds, is reported with the number
\* of filtered records of that hour, and is the smallest of the hours that
\* tie for the maximum.
C16_PeakHour ==
    /\ report.time.status = "computed" =>
          IsPeakHour(self_df.rows, report.time.common_hour, report.time.hour_count)
    /\ report.demo.status = "computed" =>
          IsPeakHour(df.rows, report.demo.peak_hour, report.demo.peak_count)

\* Weekdays Monday, Monday, Tuesday with hours 8, 8, 17, day filter monday:
\* two records, peak hour 8 with count 2.
C16_Witness ==
    /\ app = "cli" /\ report.time.status = "computed"
    /\ Len(QueryFile.rows) = 3 /\ filters.day = S("monday")
    /\ LenDF(self_df) = 2
    /\ report.time.common_hour = 8 /\ report.time.hour_count = 2

\* The filtered set of the current query, as load_and_filter_data left it.
Filtered == CliFiltered(QueryFile, filters)

\* The current query has loaded a frame with rows.
QueryLoaded == app \in {"cli", "api"} /\ report.notice \in {"loaded", "error"}

\* C17: whichever statistic groups have been computed, the analyzer's
\* dataset is the filtered set with its records, fields and values as
\* load_and_filter_data produced them.
C17_GroupsOnlyRead ==
    QueryLoaded => self_df = Filtered

\* C18: in whatever order the groups have been run, each group that has
\* reported has reported what it computes from the filtered set alone.
C18_GroupsOrderIndependent ==
    QueryLoaded =>
        /\ report.time.status # "notrun" =>
              report.time = AnalyzeTimePatterns(Filtered, self_filters)
        /\ report.stations.status # "notrun" =>
              report.stations = AnalyzeStations(Filtered).result
        /\ report.duration.status # "notrun" =>
              report.duration = AnalyzeTripDuration(Filtered)
        /\ report.demographics.status # "notrun" =>
              \E current_year \in ClockYears :
                 report.demographics = AnalyzeUserDemographics(Filtered, current_year)
        /\ report.usage.status # "notrun" =>
              report.usage = AnalyzeUsagePatterns(Filtered).result

\* All five groups have been run, in some order, over a set of a weekday
\* record and a weekend record.
C18_Witness ==
    /\ app = "api" /\ QueryLoaded
    /\ \A g \in Groups \ {"summary"} : report[g].status # "notrun"
    /\ report.usage.status = "computed"
    /\ report.usage.weekend_trips = 1 /\ report.usage.weekday_trips = 1

\* C19: the age figures are taken against one fixed reference year: what
\* the analyzer and the dashboard report for a dataset is the same in
\* whatever year the analysis is run.
C19_FixedReferenceYear ==
    /\ (QueryLoaded /\ report.demographics.status = "computed") =>
          \A current_year \in ClockYears :
             report.demographics = AnalyzeUserDemographics(Filtered, current_year)
    /\ (app = "web" /\ report.web.status = "computed") =>
          \A current_year \in ClockYears :
             report.web = WebRender(filtered_df, current_year)

\* `fmt` renders s seconds: hours are shown iff there are any, minutes iff
\* there are hours or minutes, seconds always, in that order, and the
\* units shown add up to s.
Renders(fmt, s) ==
    LET h == s \div 3600
        m == (s % 3600) \div 60
        sec == s % 60
        Shown(u) == \E i \in 1..Len(fmt) : fmt[i].unit = u
        ValueOf(u) == IF Shown(u)
                      THEN fmt[CHOOSE i \in 1..Len(fmt) : fmt[i].unit = u].value
                      ELSE 0
    IN  /\ \A i \in 1..Len(fmt) : fmt[i].unit \in {"h", "m", "s"}
        /\ \A i, j \in 1..Len(fmt) : fmt[i].unit = fmt[j].unit => i = j
        /\ Shown("h") <=> h > 0
        /\ Shown("m") <=> (h > 0 \/ m > 0)
        /\ Shown("s") /\ fmt[Len(fmt)].unit = "s"
        /\ Shown("h") => fmt[1].unit = "h"
        /\ ValueOf("h") = h /\ ValueOf("m") = m /\ ValueOf("s") = sec
        /\ 3600 * ValueOf("h") + 60 * ValueOf("m") + ValueOf("s") = s

\* C20: the total, the shortest and the longest trip duration that
\* analyze_trip_duration prints are rendered as hours, minutes and seconds
\* with only leading zero units dropped, and the units add up to the
\* number of seconds rendered.
C20_FormatDuration ==
    (report.duration.status = "computed" /\ QueryLoaded) =>
        LET durations == {Filtered.rows[i].Trip_Duration : i \in 1..LenDF(Filtered)}
                            \ {NaN}
        IN  durations # {} =>
               /\ Renders(report.duration.total, report.duration.total_seconds)
               /\ \E s \in durations :
                     /\ \A x \in durations : s <= x
                     /\ Renders(report.duration.min, s)
               /\ \E s \in durations :
                     /\ \A x \in durations : x <= s
                     /\ Renders(report.duration.max, s)

\* A single trip of 3600 seconds: one hour, no minutes and no seconds, all
\* three units shown.
C20_Witness ==
    /\ report.duration.status = "computed" /\ QueryLoaded
    /\ report.duration.total_seconds = 3600
    /\ report.duration.total = <<[unit |-> "h", value |-> 1],
                                 [unit |-> "m", value |-> 0],
                                 [unit |-> "s", value |-> 0]>>

(***************************************************************************)
(* The weekend split, the analyzer's stored state, the month report and    *)
(* the agreement of the front ends (spec.md, sections 3, 4 and 6).         *)
(***************************************************************************)
\* The number of records of `rows` whose weekday is Saturday or Sunday.
WeekendRecords(rows) ==
    Cardinality({i \in 1..Len(rows) : rows[i].day_of_week.w \in {"saturday", "sunday"}})

\* `pct` tenths of a percent is count / n to one decimal.
PctOf(pct, count, n) ==
    2 * (pct * n - 1000 * count) <= n /\ 2 * (1000 * count - pct * n) <= n

\* C21: for every filtered dataset with records, the usage group reports
\* the number of Saturday and Sunday records as the weekend count and the
\* number of all other records as the weekday count, both with their
\* percentage of the filtered size, also when one of the two is zero; the
\* two counts sum to the filtered size.  The demonstration reports the two
\* counts.
C21_WeekendSplit ==
    /\ (QueryLoaded /\ report.usage.status # "notrun") =>
          LET n == LenDF(Filtered)
              use == report.usage
          IN  /\ use.status = "computed"
              /\ use.weekend_trips = WeekendRecords(Filtered.rows)
              /\ use.weekday_trips = n - WeekendRecords(Filtered.rows)
              /\ use.weekend_trips + use.weekday_trips = n
              /\ use.split.status = "computed"
              /\ PctOf(use.split.weekend_pct, use.weekend_trips, n)
              /\ PctOf(use.split.weekday_pct, use.weekday_trips, n)
    /\ report.demo.status = "computed" =>
          /\ report.demo.weekend_trips = WeekendRecords(df.rows)
          /\ report.demo.weekday_trips = LenDF(df) - WeekendRecords(df.rows)

\* A frame that holds no record (self.df before the first load is None).
NoRecords(d) == d = None \/ LenDF(d) = 0

\* C22: whenever load_and_filter_data has returned, whatever queries went
\* before, the analyzer's filters are the filter spec of that call and the
\* analyzer's dataset is the set of records that spec selects, without
\* records when it selects none.
C22_StoredStateConsistent ==
    JustLoaded =>
        /\ self_filters = filters
        /\ IF LenDF(Filtered) = 0 THEN NoRecords(self_df) ELSE self_df = Filtered

\* The most frequent month of `rows`, the smallest among ties.
MostFrequentMonth(rows) ==
    LET Trips(m) == Cardinality({i \in 1..Len(rows) : rows[i].month = m})
    IN  CHOOSE m \in 1..12 :
           /\ Trips(m) > 0
           /\ \A x \in 1..12 : Trips(x) <= Trips(m)
           /\ \A x \in 1..12 : Trips(x) = Trips(m) => m <= x

\* C23: with the month filter 'all', whatever month from 1 to 12 is the
\* most frequent one of the filtered set, analyze_time_patterns raises
\* nothing and reports the month: by its name for January to June, as
\* 'Unknown' for July to December.
C23_MonthReportCompletes ==
    (QueryLoaded /\ self_filters.month = S("all") /\ report.time.status # "notrun") =>
        LET m == MostFrequentMonth(Filtered.rows)
        IN  /\ report.time.status = "computed"
            /\ report.time.month.status = "computed"
            /\ report.time.month.month_name =
                  IF m <= 6 THEN Title(MONTHS[m + 1]) ELSE Title(S("unknown"))

\* A record as both front ends hold it: the fields of the file and the
\* fields derived from Start Time (is_weekend and route are columns of the
\* dashboard's frame alone).
Record(r) == [r EXCEPT !.is_weekend = FALSE, !.route = <<>>]

Records(d) == [i \in 1..LenDF(d) |-> Record(d.rows[i])]

\* C24: for the same file and the same month and weekday selection,
\* load_and_filter_data and filter_data with the hour range (0, 23) select
\* the same records, in the same order.
C24_FrontEndsSelectSameRecords ==
    /\ JustLoaded =>
          LET web_df == WebLoadData(QueryFile)
          IN  Records(df) = Records(FilterData(web_df, Title(filters.month),
                                               Title(filters.day), FullDay).out)
    /\ (JustFiltered /\ sidebar.hour_range = FullDay) =>
          LET f == FilterConfig(sidebar.city, sidebar.month, sidebar.day)
              call == LoadAndFilterData(SidebarFile, f, None)
          IN  /\ ~call.raised
              /\ Records(filtered_df) = Records(call.ret)

\* Both front ends keep the Saturday record of January out of a January
\* record of a Monday and one of a Saturday.
C24_Witness ==
    /\ JustFiltered /\ sidebar.hour_range = FullDay
    /\ sidebar.month = Title(S("january")) /\ sidebar.day = Title(S("saturday"))
    /\ LenDF(df) = 2 /\ LenDF(filtered_df) = 1
    /\ LenDF(CliFiltered(SidebarFile, FilterConfig(sidebar.city, sidebar.month,
                                                   sidebar.day))) = 1

\* C25: run_analysis turns a session away for want of data files only when
\* no city has its file; a query for a city whose file is there and can be
\* read is loaded, whichever files of the other cities are there.
C25_OnlyRequestedCityMatters ==
    /\ (app = "cli" /\ \E n \in FileNames : files[n].exists) =>
          report.notice # "cannot_proceed"
    /\ (app = "cli" /\ LoadCalled /\ QueryFile.exists /\ HasStartTime(QueryFile)) =>
          report.notice \in {"loaded", "no_data", "error"}

====
